---- MODULE Spec2Model ----
(***************************************************************************)
(* A model of the audpbx streaming pipeline: a pull-based Source, the      *)
(* cubic Resampler (audio/resampler.go), the MonoMixer                     *)
(* (audio/mono_mixer.go) and the driver ResampleToMono16.                  *)
(*                                                                         *)
(* Sample values and the resampler position are exact rationals <<n, d>>   *)
(* (d > 0, lowest terms): float32/float64 arithmetic is modelled without   *)
(* rounding.  Go slices are 0-based, TLA+ sequences 1-based: window slot i *)
(* of the code is frames[i + 1] here, channel c is index c + 1.            *)
(***************************************************************************)
EXTENDS Integers, Sequences, FiniteSets, TLC

(* ------------------------------ bounds -------------------------------- *)

\* Largest number of frames a generated source holds.
MaxFrames == 6

\* Largest number of ReadSamples calls made on one pipeline.
MaxCalls == 3

\* Largest buffer (in frames) a caller passes to a direct read, and largest
\* of the small chunk sizes of the driver.
MaxBuf == 2

\* Iterations of the driver's drain loop that are followed before the run
\* is reported as still running.
MaxDriverIters == 40

\* Most reads of a MonoMixer in one behaviour.
MaxMixerCalls == 2

(* ---------------------------- rationals ------------------------------- *)

RECURSIVE GCD(_, _)
GCD(a, b) == IF b = 0 THEN a ELSE GCD(b, a % b)

Abs(a) == IF a < 0 THEN -a ELSE a

Min(a, b) == IF a < b THEN a ELSE b

Max(a, b) == IF a < b THEN b ELSE a

Q(n, d) ==
    LET g == GCD(Abs(n), d) IN <<n \div g, d \div g>>

Zero == <<0, 1>>

One == <<1, 1>>

QAdd(a, b) ==
    LET l == (a[2] \div GCD(a[2], b[2])) * b[2]
    IN  Q(a[1] * (l \div a[2]) + b[1] * (l \div b[2]), l)

QNeg(a) == <<-a[1], a[2]>>

QSub(a, b) == QAdd(a, QNeg(b))

QMul(a, b) ==
    LET g1 == GCD(Abs(a[1]), b[2])
        g2 == GCD(Abs(b[1]), a[2])
    IN  <<(a[1] \div g1) * (b[1] \div g2), (a[2] \div g2) * (b[2] \div g1)>>

QLt(a, b) == a[1] * b[2] < b[1] * a[2]

QLe(a, b) == a[1] * b[2] <= b[1] * a[2]

(* ------------------------------ errors -------------------------------- *)

\* A Go error value: its root cause and how many fmt.Errorf("%w") wrappers
\* surround it.  err == io.EOF holds only of the unwrapped value.
Nil == [base |-> "nil", wraps |-> 0]

EOF == [base |-> "EOF", wraps |-> 0]

ErrInvalidDstSize == [base |-> "ErrInvalidDstSize", wraps |-> 0]

\* The error of a failing upstream Source.
ErrUpstream == [base |-> "ErrUpstream", wraps |-> 0]

\* A run-time panic (index out of range); never returned, it unwinds the caller.
Panic == [base |-> "panic", wraps |-> 0]

Wrap(e) == IF e = Panic THEN e ELSE [e EXCEPT !.wraps = @ + 1]

\* The error of a Source whose Close fails.
ErrClose == [base |-> "ErrClose", wraps |-> 0]

(* ------------------------------ Source -------------------------------- *)

\* waveform(sample, channel) of the test sources.
Waveform(w, sample, channel) ==
    CASE w = "half" -> Q(1, 2)
      [] w = "chan" -> Q(channel + 1, 4)
      [] w = "ramp" -> Q(8 * sample + channel, 64)
      [] w = "clip" -> IF sample % 3 = 0 THEN <<2, 1>>
                       ELSE IF sample % 3 = 1 THEN <<-2, 1>> ELSE Zero

NewMockSource(sampleRate, channels, totalSamples, w, lazy, failAt) ==
    [sampleRate |-> sampleRate, channels |-> channels,
     totalSamples |-> totalSamples, generated |-> 0, waveform |-> w,
     lazy |-> lazy, failAt |-> failAt, reads |-> 0, eofs |-> 0,
     closes |-> 0, closeErr |-> Nil, stallAt |-> 0]

\* The source of formats/vorbis: when the decoder hands out no frame and no
\* error, ReadSamples returns (0, nil) while more data follows.  Here read
\* number stallAt is such a read; io.EOF comes with a short or empty read.
NewStallingSource(sampleRate, channels, totalSamples, w, stallAt) ==
    [NewMockSource(sampleRate, channels, totalSamples, w, TRUE, 0)
        EXCEPT !.stallAt = stallAt]

\* Source.Close(): closes counts the calls, closeErr is what Close returns
\* (nil for the sources of this repository).
SrcClose(s) == [src |-> [s EXCEPT !.closes = @ + 1], err |-> s.closeErr]

\* Source.ReadSamples(dst), len(dst) = len.  The eager source is MockSource:
\* io.EOF comes with the last data.  The lazy one is the WAV source read in
\* whole frames: io.EOF comes with a short or empty read only.  failAt > 0
\* makes read number failAt and every later one fail (the contract's error
\* status); stallAt > 0 makes read number stallAt return (0, nil) and
\* deliver nothing.  reads counts the calls, eofs the calls answered io.EOF.
SrcReadSamples(s, len) ==
    LET s1 == [s EXCEPT !.reads = @ + 1]
    IN
    IF s.failAt > 0 /\ s1.reads >= s.failAt
    THEN [src |-> s1, n |-> 0, err |-> ErrUpstream, data |-> <<>>]
    ELSE IF s.stallAt > 0 /\ s1.reads = s.stallAt
    THEN [src |-> s1, n |-> 0, err |-> Nil, data |-> <<>>]
    ELSE IF s.generated >= s.totalSamples
    THEN [src |-> [s1 EXCEPT !.eofs = @ + 1], n |-> 0, err |-> EOF, data |-> <<>>]
    ELSE
    LET framesRequested == len \div s.channels
        framesAvailable == s.totalSamples - s.generated
        framesToWrite == Min(framesRequested, framesAvailable)
        n == framesToWrite * s.channels
        data == [i \in 1..n |->
                    Waveform(s.waveform, s.generated + ((i - 1) \div s.channels),
                             (i - 1) % s.channels)]
        atEnd == IF s.lazy THEN framesToWrite < framesRequested
                 ELSE s.generated + framesToWrite >= s.totalSamples
    IN  [src |-> [s1 EXCEPT !.generated = @ + framesToWrite,
                            !.eofs = IF atEnd THEN @ + 1 ELSE @],
         n |-> n, err |-> IF atEnd THEN EOF ELSE Nil, data |-> data]

(* ----------------------------- utilities ------------------------------ *)

\* utils.CubicInterpolate: Catmull-Rom through y1 (x = 0) and y2 (x = 1).
CubicInterpolate(y0, y1, y2, y3, x) ==
    LET h == Q(1, 2)
        a0 == QAdd(QSub(QAdd(QMul(QNeg(h), y0), QMul(Q(3, 2), y1)),
                        QMul(Q(3, 2), y2)), QMul(h, y3))
        a1 == QSub(QAdd(QSub(y0, QMul(Q(5, 2), y1)), QMul(<<2, 1>>, y2)),
                   QMul(h, y3))
        a2 == QAdd(QMul(QNeg(h), y0), QMul(h, y2))
        a3 == y1
    IN  QAdd(QAdd(QAdd(QMul(QMul(QMul(a0, x), x), x), QMul(QMul(a1, x), x)),
                  QMul(a2, x)), a3)

\* float32 arithmetic of CubicInterpolate at the ends of a segment.  A value
\* is an integer count of units of 2^-25; a float32 of magnitude below 1/2
\* is any such count, above it the grid doubles with every power of two.
F32One == 2^25

\* The spacing of float32 at magnitude a (in units).
RECURSIVE F32Ulp(_)
F32Ulp(a) == IF a < 2^24 THEN 1 ELSE 2 * F32Ulp(a \div 2)

\* The nearest multiple of u to the magnitude a, ties to the even one.
F32Nearest(a, u) ==
    IF 2 * (a % u) > u \/ (2 * (a % u) = u /\ (a \div u) % 2 = 1)
    THEN ((a \div u) + 1) * u
    ELSE (a \div u) * u

\* The float32 result of an operation whose exact result is v.
F32(v) ==
    IF v < 0 THEN -F32Nearest(-v, F32Ulp(-v)) ELSE F32Nearest(v, F32Ulp(v))

\* c * y for a constant c = k / 2 (k is -1, 1, 3, 4, 5) and an argument y
\* that is an even count of units.
F32MulHalves(k, y) == F32((k * y) \div 2)

\* v * x for x = 0.0 or x = 1.0 (exact).
F32MulEnd(v, x) == IF x = 0 THEN 0 ELSE v

\* return a0*x*x*x + a1*x*x + a2*x + a3, every operation rounded.
CubicSumF32(a0, a1, a2, a3, x) ==
    F32(F32(F32(F32MulEnd(F32MulEnd(F32MulEnd(a0, x), x), x)
                + F32MulEnd(F32MulEnd(a1, x), x))
            + F32MulEnd(a2, x))
        + a3)

\* utils.CubicInterpolate in float32, for x = 0.0 and x = 1.0, on a build
\* that rounds every operation (no fused multiply-add).
CubicInterpolateF32(y0, y1, y2, y3, x) ==
    CubicSumF32(
        F32(F32(F32(F32MulHalves(-1, y0) + F32MulHalves(3, y1))
                - F32MulHalves(3, y2))
            + F32MulHalves(1, y3)),
        F32(F32(F32(y0 - F32MulHalves(5, y1)) + F32MulHalves(4, y2))
            - F32MulHalves(1, y3)),
        F32(F32MulHalves(-1, y0) + F32MulHalves(1, y2)),
        y1,
        x)

(* ----------------------------- Resampler ------------------------------ *)

NewResampler(s, dstRate) ==
    LET ratio == Q(s.sampleRate, dstRate)
        useFilter == QLt(One, ratio)
    IN  [srcRate |-> s.sampleRate, dstRate |-> dstRate, ratio |-> ratio,
         channels |-> s.channels,
         frames |-> [i \in 1..4 |-> [c \in 1..s.channels |-> Zero]],
         hasFrame |-> [i \in 1..4 |-> FALSE],
         pos |-> Zero, eof |-> FALSE,
         filterState |-> [c \in 1..s.channels |-> Zero],
         useFilter |-> useFilter,
         filterAlpha |-> IF useFilter THEN Q(1, 2) ELSE Zero,
         advances |-> 0, emitted |-> 0, readAtEmit |-> 0]

\* copy(dst, srcBuf[:n]): the first n values of dst are overwritten.
CopyInto(dst, data, n) ==
    [c \in 1..Len(dst) |-> IF c <= n THEN data[c] ELSE dst[c]]

\* The one-pole low-pass of fetchNextFrame: y[n] = alpha*x[n] + (1-alpha)*y[n-1].
LowPass(r, frame) ==
    [c \in 1..r.channels |->
        QAdd(QMul(r.filterAlpha, frame[c]),
             QMul(QSub(One, r.filterAlpha), r.filterState[c]))]

\* fetchNextFrame after its upstream read rd: the window is shifted, the
\* frame read (filtered when downsampling) enters slot 3.  advances is
\* history: the calls of fetchNextFrame that returned nil.
FetchStore(r, rd, new3) ==
    [r |-> [r EXCEPT
              !.advances = IF rd.err = Nil \/ (rd.err = EOF /\ rd.n > 0)
                           THEN @ + 1 ELSE @,
              !.frames = <<r.frames[2], r.frames[3], r.frames[4],
                           IF rd.n > 0 THEN new3 ELSE r.frames[4]>>,
              !.hasFrame = <<r.hasFrame[2], r.hasFrame[3], r.hasFrame[4],
                             rd.n > 0>>,
              !.filterState = IF rd.n > 0 /\ r.useFilter THEN new3 ELSE @,
              !.eof = (rd.err = EOF)],
     src |-> rd.src,
     err |-> IF rd.err = EOF
             THEN (IF rd.n > 0 THEN Nil ELSE EOF)
             ELSE IF rd.err # Nil THEN Wrap(rd.err) ELSE Nil]

\* A fetch that filters the frame whether or not the filter is in use.
FetchReadAlwaysFiltered(r, rd) ==
    FetchStore(r, rd,
               IF rd.n > 0
               THEN LowPass(r, CopyInto(r.frames[4], rd.data, rd.n))
               ELSE CopyInto(r.frames[4], rd.data, rd.n))

FetchRead(r, rd) ==
    FetchStore(r, rd,
               IF rd.n > 0 /\ r.useFilter
               THEN LowPass(r, CopyInto(r.frames[4], rd.data, rd.n))
               ELSE CopyInto(r.frames[4], rd.data, rd.n))

\* Resampler.fetchNextFrame: shift the window, read one frame into slot 3.
FetchNextFrame(r, s) ==
    IF r.eof THEN [r |-> r, src |-> s, err |-> EOF]
    ELSE FetchRead(r, SrcReadSamples(s, r.channels))

\* On io.EOF at slot i > 0 of the priming loop: slots i..3 become copies of
\* slot i-1.
DuplicateLast(r, i) ==
    [r EXCEPT !.frames = [j \in 1..4 |-> IF j >= i + 1 THEN r.frames[i] ELSE @[j]],
              !.hasFrame = [j \in 1..4 |-> IF j >= i + 1 THEN TRUE ELSE @[j]]]

\* A priming loop that leaves the filter accumulator at zero.
PrimeStoreUnseeded(r, rd, i) ==
    IF rd.n > 0
    THEN [r EXCEPT !.frames[i + 1] = CopyInto(@, rd.data, rd.n),
                   !.hasFrame[i + 1] = TRUE]
    ELSE r

\* Slot i of the priming loop after its upstream read rd.
PrimeStore(r, rd, i) ==
    IF rd.n > 0
    THEN [r EXCEPT !.frames[i + 1] = CopyInto(@, rd.data, rd.n),
                   !.hasFrame[i + 1] = TRUE,
                   !.filterState = IF i = 0 /\ r.useFilter
                                   THEN CopyInto(@, rd.data, rd.n) ELSE @]
    ELSE r

\* The priming loop of ReadSamples from slot i on (i = 0..3).  ret is "go"
\* when the read goes on to produce output, "return" when it returns
\* (0, err) from inside the loop.
RECURSIVE PrimeFrom(_, _, _)
PrimeSlot(r1, rd, i) ==
    IF rd.err = EOF
    THEN IF i = 0
         THEN [r |-> [r1 EXCEPT !.eof = TRUE], src |-> rd.src,
               ret |-> "return", err |-> EOF]
         ELSE [r |-> DuplicateLast([r1 EXCEPT !.eof = TRUE], i),
               src |-> rd.src, ret |-> "go", err |-> Nil]
    ELSE IF rd.err # Nil
    THEN [r |-> r1, src |-> rd.src, ret |-> "return", err |-> Wrap(rd.err)]
    ELSE PrimeFrom(r1, rd.src, i + 1)

PrimeRead(r, rd, i) == PrimeSlot(PrimeStore(r, rd, i), rd, i)

PrimeFrom(r, s, i) ==
    IF i >= 4 THEN [r |-> r, src |-> s, ret |-> "go", err |-> Nil]
    ELSE PrimeRead(r, SrcReadSamples(s, r.channels), i)

\* if !r.hasFrame[1] { ... }
Prime(r, s) ==
    IF r.hasFrame[2] THEN [r |-> r, src |-> s, ret |-> "go", err |-> Nil]
    ELSE PrimeFrom(r, s, 0)

\* for r.pos >= 1.0 { r.pos -= 1.0; fetchNextFrame() }.  st is the state of
\* one ReadSamples call: r, src, written, out, done, err.
RECURSIVE Advance(_)
AdvanceWith(st, f) ==
    IF f.err = Nil
    THEN Advance([st EXCEPT !.r = f.r, !.src = f.src])
    ELSE [st EXCEPT !.r = f.r, !.src = f.src, !.done = TRUE, !.err = f.err]

Advance(st) ==
    IF QLt(st.r.pos, One) THEN st
    ELSE AdvanceWith(st, FetchNextFrame([st.r EXCEPT !.pos = QSub(@, One)],
                                        st.src))

\* The interpolated frame at the current position.
InterpolateFrame(r) ==
    [c \in 1..r.channels |->
        CubicInterpolate(
            IF r.hasFrame[1] THEN r.frames[1][c] ELSE r.frames[2][c],
            r.frames[2][c],
            r.frames[3][c],
            IF r.hasFrame[4] THEN r.frames[4][c] ELSE r.frames[3][c],
            r.pos)]

\* The rest of one iteration of the output loop, after the window advance.
\* emitted and readAtEmit are history: the output frames produced so far,
\* and the source frames the upstream had delivered when the latest one was
\* produced.
Emit(a) ==
    IF a.done THEN a
    ELSE IF ~a.r.hasFrame[2] \/ ~a.r.hasFrame[3]
    THEN [a EXCEPT !.done = TRUE, !.err = EOF]
    ELSE [a EXCEPT !.out = @ \o InterpolateFrame(a.r),
                   !.written = @ + 1,
                   !.r.pos = QAdd(@, a.r.ratio),
                   !.r.emitted = @ + 1,
                   !.r.readAtEmit = a.src.generated]

\* One iteration of `for written < framesNeeded`.
ProduceFrame(st) == Emit(Advance(st))

\* k iterations of the output loop, stopping at the first return.  The
\* iterations are split in halves only to keep the evaluation shallow.
RECURSIVE ProduceFrames(_, _)
ProduceFrames(st, k) ==
    IF st.done \/ k <= 0 THEN st
    ELSE IF k = 1 THEN ProduceFrame(st)
    ELSE ProduceFrames(ProduceFrames(st, k \div 2), k - (k \div 2))

\* A return that drops the frames produced when the call ends in an error.
ReturnedDropped(st) ==
    [r |-> st.r, src |-> st.src,
     n |-> IF st.err = Nil THEN st.written * st.r.channels ELSE 0,
     err |-> st.err,
     out |-> IF st.err = Nil THEN st.out ELSE <<>>]

\* A return that reports success whenever the call produced frames.
ReturnedShortNil(st) ==
    [r |-> st.r, src |-> st.src, n |-> st.written * st.r.channels,
     err |-> IF st.written > 0 THEN Nil ELSE st.err, out |-> st.out]

\* What ReadSamples returns when the output loop ends in state st.
Returned(st) ==
    [r |-> st.r, src |-> st.src, n |-> st.written * st.r.channels,
     err |-> st.err, out |-> st.out]

\* ReadSamples after the priming block p.
Primed(p, len) ==
    IF p.ret = "return"
    THEN [r |-> p.r, src |-> p.src, n |-> 0, err |-> p.err, out |-> <<>>]
    ELSE Returned(ProduceFrames([r |-> p.r, src |-> p.src, written |-> 0,
                                 out |-> <<>>, done |-> FALSE, err |-> Nil],
                                len \div p.r.channels))

\* A ReadSamples that primes the window before it checks the buffer length.
InvalidAfter(p) ==
    [r |-> p.r, src |-> p.src, n |-> 0, err |-> ErrInvalidDstSize,
     out |-> <<>>]

ReadSamplesCheckLate(r, s, len) ==
    IF len % r.channels # 0
    THEN InvalidAfter(Prime(r, s))
    ELSE Primed(Prime(r, s), len)

\* Resampler.ReadSamples(dst), len(dst) = len: the whole call.
ReadSamples(r, s, len) ==
    IF len % r.channels # 0
    THEN [r |-> r, src |-> s, n |-> 0, err |-> ErrInvalidDstSize, out |-> <<>>]
    ELSE Primed(Prime(r, s), len)

(* ----------------------------- MonoMixer ------------------------------ *)

\* make([]float32, 4096) in NewMonoMixer.
TmpInit == 4096

\* newCap = 8192, the least capacity MonoMixer.ReadSamples of src/doc.go
\* allocates.
MinNewCap == 8192

\* The repository holds MonoMixer.ReadSamples twice: in
\* src/audio/mono_mixer.go, and in src/doc.go.  A build has one of them.
MixerVersions == {"mono_mixer.go", "doc.go"}

\* The mixer's state is its scratch buffer: tmp is len(m.tmp), cap is
\* cap(m.tmp).
NewMonoMixer(version) ==
    [tmp |-> TmpInit, cap |-> TmpInit, version |-> version]

\* A pipeline without a MonoMixer.
NoMixer == [version |-> "none"]

\* The upstream of a MonoMixer is a Resampler r over the source, or the
\* source itself: then r only tells the channel count.
NoResampler(s) == [channels |-> s.channels]

IsResampler(r) == "pos" \in DOMAIN r

SourceRead(r, rd) ==
    [r |-> r, src |-> rd.src, n |-> rd.n, err |-> rd.err, out |-> rd.data]

\* m.src.ReadSamples(buf), len(buf) = len.
UpstreamRead(r, s, len) ==
    IF IsResampler(r) THEN ReadSamples(r, s, len)
    ELSE SourceRead(r, SrcReadSamples(s, len))

\* sum += m.tmp[f*C + c] for c = 0..k-1, frame f counted from 0.
RECURSIVE FrameSum(_, _, _, _)
FrameSum(data, f, C, k) ==
    IF k = 0 THEN Zero
    ELSE QAdd(FrameSum(data, f, C, k - 1), data[f * C + k])

\* dst[f] = sum / C for the first `frames` frames of data.
MixDown(data, C, frames) ==
    [f \in 1..frames |-> QMul(FrameSum(data, f - 1, C, C), Q(1, C))]

\* What an upstream read did, for the callers' records.
NoUpstream == [called |-> FALSE, len |-> 0, n |-> 0, err |-> Nil, out |-> <<>>]

Upstream(len, rd) ==
    [called |-> TRUE, len |-> len, n |-> rd.n, err |-> rd.err, out |-> rd.out]

\* A mix-down that reports success whenever it delivers frames.
MixedStatusLost(m1, len, C, req, rd) ==
    [m |-> m1, r |-> rd.r, src |-> rd.src, n |-> Min(rd.n \div C, len),
     err |-> IF rd.n = 0 THEN rd.err ELSE Nil,
     out |-> MixDown(rd.out, C, Min(rd.n \div C, len)),
     up |-> Upstream(req, rd)]

\* MonoMixer.ReadSamples for C > 1 after its upstream read rd of req
\* samples.
Mixed(m1, len, C, req, rd) ==
    IF rd.n = 0
    THEN [m |-> m1, r |-> rd.r, src |-> rd.src, n |-> 0, err |-> rd.err,
          out |-> <<>>, up |-> Upstream(req, rd)]
    ELSE IF rd.n \div C > len
    THEN \* dst[f] with f = len(dst): index out of range
         [m |-> m1, r |-> rd.r, src |-> rd.src, n |-> 0, err |-> Panic,
          out |-> MixDown(rd.out, C, len), up |-> Upstream(req, rd)]
    ELSE [m |-> m1, r |-> rd.r, src |-> rd.src, n |-> rd.n \div C,
          err |-> rd.err, out |-> MixDown(rd.out, C, rd.n \div C),
          up |-> Upstream(req, rd)]

\* A pass-through that drops the upstream's status.
PassedThroughNoStatus(m, len, rd) ==
    [m |-> m, r |-> rd.r, src |-> rd.src, n |-> rd.n, err |-> Nil,
     out |-> rd.out, up |-> Upstream(len, rd)]

\* The pass-through of a mono upstream.
PassedThrough(m, len, rd) ==
    [m |-> m, r |-> rd.r, src |-> rd.src, n |-> rd.n, err |-> rd.err,
     out |-> rd.out, up |-> Upstream(len, rd)]

\* src/audio/mono_mixer.go:
\* if len(m.tmp) < len(dst)*C { m.tmp = make([]float32, len(dst)*C) }
GrowTmp(m, len, C) ==
    IF m.tmp < len * C THEN [m EXCEPT !.tmp = len * C, !.cap = len * C] ELSE m

\* src/audio/mono_mixer.go: the upstream read of the whole m.tmp.
MixRead(m1, r, s, len) ==
    Mixed(m1, len, r.channels, m1.tmp, UpstreamRead(r, s, m1.tmp))

\* An upstream read of the whole scratch buffer in place of its first
\* samplesNeeded samples.
MixReadWholeScratch(m1, r, s, len) ==
    Mixed(m1, len, r.channels, m1.tmp, UpstreamRead(r, s, m1.tmp))

\* src/doc.go: the scratch buffer grows to samplesNeeded, to at least
\* MinNewCap when it is allocated anew, and never shrinks.
GrowTmpNeeded(m, samplesNeeded) ==
    IF m.cap < samplesNeeded
    THEN [m EXCEPT !.tmp = Max(samplesNeeded, MinNewCap),
                   !.cap = Max(samplesNeeded, MinNewCap)]
    ELSE IF m.tmp < samplesNeeded
    THEN [m EXCEPT !.tmp = samplesNeeded]
    ELSE m

\* A mix-down that asks its upstream for len(dst) samples.
MixReadDstLen(m1, r, s, len) ==
    Mixed(m1, len, r.channels, len, UpstreamRead(r, s, len))

\* src/doc.go: the upstream read of m.tmp[:samplesNeeded].
MixReadNeeded(m1, r, s, len) ==
    Mixed(m1, len, r.channels, len * r.channels,
          UpstreamRead(r, s, len * r.channels))

\* err := src.Close(); if err != nil { return fmt.Errorf("%w", err) };
\* return nil -- the body of Resampler.Close and of MonoMixer.Close after
\* the upstream Close returned cl.
CloseReturned(cl) ==
    [src |-> cl.src, err |-> IF cl.err # Nil THEN Wrap(cl.err) ELSE Nil,
     upErr |-> cl.err]

\* Resampler.Close().
ResamplerClose(r, s) == CloseReturned(SrcClose(s))

\* A MonoMixer.Close that returns nil without closing its source.
MonoMixerCloseDropped(r, s) == [src |-> s, err |-> Nil, upErr |-> Nil]

\* MonoMixer.Close() over the upstream r (a Resampler over s, or s itself).
MonoMixerClose(r, s) ==
    CloseReturned(IF IsResampler(r) THEN ResamplerClose(r, s) ELSE SrcClose(s))

\* A MonoMixer.ReadSamples without the test for an empty dst.
MonoMixerReadSamplesUnguarded(m, r, s, len) ==
    IF r.channels = 1
    THEN PassedThrough(m, len, UpstreamRead(r, s, len))
    ELSE MixReadNeeded(GrowTmpNeeded(m, len * r.channels), r, s, len)

\* MonoMixer.ReadSamples(dst), len(dst) = len, over the upstream r (a
\* Resampler over s, or s itself).
MonoMixerReadSamples(m, r, s, len) ==
    IF len = 0
    THEN [m |-> m, r |-> r, src |-> s, n |-> 0, err |-> Nil, out |-> <<>>,
          up |-> NoUpstream]
    ELSE IF r.channels = 1
    THEN PassedThrough(m, len, UpstreamRead(r, s, len))
    ELSE IF m.version = "doc.go"
    THEN MixReadNeeded(GrowTmpNeeded(m, len * r.channels), r, s, len)
    ELSE MixRead(GrowTmp(m, len, r.channels), r, s, len)

(* ------------------------------ driver -------------------------------- *)

\* const maxInt16 float32 = 32768.0 in ResampleToMono16.
MaxInt16 == 32768

\* Truncation toward zero, as Go's float to integer conversion.
Trunc(x) == IF x[1] >= 0 THEN x[1] \div x[2] ELSE -((-x[1]) \div x[2])

\* A conversion that forgets the scale: int16(x).
InlineToInt16Unscaled(x, build) ==
    Trunc(IF QLt(One, x) THEN One
          ELSE IF QLt(x, QNeg(One)) THEN QNeg(One) ELSE x)

\* The conversion inlined in ResampleToMono16: clamp to [-1, 1], then
\* int16(x * maxInt16).  A value outside int16 is converted as the build
\* does: "wrap" keeps the low 16 bits, "saturate" clamps.
InlineToInt16(x, build) ==
    LET c == IF QLt(One, x) THEN One
             ELSE IF QLt(x, QNeg(One)) THEN QNeg(One) ELSE x
        v == Trunc(QMul(c, <<MaxInt16, 1>>))
    IN  IF v > 32767
        THEN (IF build = "wrap" THEN v - 65536 ELSE 32767)
        ELSE v

(* ----------------------------- quantizer ------------------------------ *)

\* int16(v) of an integer-valued v that may lie outside int16, as a build
\* that keeps the low 16 bits does it.
WrapInt16(v) == ((v + 32768) % 65536) - 32768

\* A conversion without the clamp: int16(x * 32767.0), low 16 bits kept.
Float32ToInt16NoClamp(x) == WrapInt16(Trunc(QMul(x, <<32767, 1>>)))

\* The copy of utils.Float32ToInt16 that scales by 2^15, on a build that
\* keeps the low 16 bits of a value outside int16.
Float32ToInt16Wrapping(x) ==
    WrapInt16(Trunc(QMul(IF QLt(One, x) THEN One
                         ELSE IF QLt(x, QNeg(One)) THEN QNeg(One) ELSE x,
                         <<32768, 1>>)))

\* utils.Float32ToInt16(x): clamp to [-1, 1], then int16(x * 32767.0).
Float32ToInt16(x) ==
    Trunc(QMul(IF QLt(One, x) THEN One
               ELSE IF QLt(x, QNeg(One)) THEN QNeg(One) ELSE x,
               <<32767, 1>>))

\* The second copy of utils.Float32ToInt16: clamp to [-1, 1], then
\* int16(x * maxInt16) with maxInt16 = 32768.0.  The product 32768 is
\* outside int16 and converted as the build does.
Float32ToInt16Pow2(x, build) ==
    LET v == Trunc(QMul(IF QLt(One, x) THEN One
                        ELSE IF QLt(x, QNeg(One)) THEN QNeg(One) ELSE x,
                        <<32768, 1>>))
    IN  IF v > 32767
        THEN (IF build = "wrap" THEN WrapInt16(v) ELSE 32767)
        ELSE v

\* The drain loop of ResampleToMono16 works on st: m, r, src, the call's
\* arguments, pcm16, and what the loop has seen: reads (mixer reads),
\* delivered (the sum of their n), mono (the samples they delivered), lastN
\* (n of the latest read), failed (the first error other than io.EOF that
\* a read of the Resampler reported).
Seen(st, rd) ==
    [st EXCEPT !.m = rd.m, !.r = rd.r, !.src = rd.src, !.reads = @ + 1,
               !.failed = IF @ = Nil /\ rd.up.err \notin {Nil, EOF}
                          THEN rd.up.err ELSE @]

Delivered(st, rd) ==
    [st EXCEPT !.delivered = @ + rd.n,
               !.mono = @ \o [i \in 1..rd.n |-> rd.out[i]],
               !.lastN = rd.n]

\* if n > 0 { ... pcm16[startIdx+i] = int16(x * maxInt16) ... }
Appended(st, rd) ==
    [st EXCEPT !.pcm16 = @ \o [i \in 1..rd.n |->
                                 InlineToInt16(rd.out[i], st.build)]]

\* if err == io.EOF { break }; if err != nil { return nil, targetRate, ... }
Decided(st, rd) ==
    IF rd.err = EOF
    THEN [st EXCEPT !.done = TRUE, !.status = "returned"]
    ELSE IF rd.err # Nil
    THEN [st EXCEPT !.done = TRUE, !.status = "returned", !.pcm16 = <<>>,
                    !.isNil = TRUE, !.err = Wrap(rd.err)]
    ELSE st

\* A drain loop that tests for io.EOF before it converts the samples of
\* the read.
DrainedBreakFirst(st, rd) ==
    IF rd.err = Panic
    THEN [Seen(st, rd) EXCEPT !.done = TRUE, !.status = "panic", !.err = Panic]
    ELSE IF rd.err = EOF
    THEN Decided(Delivered(Seen(st, rd), rd), rd)
    ELSE Decided(Appended(Delivered(Seen(st, rd), rd), rd), rd)

\* One iteration of the drain loop after its mixer read rd.
Drained(st, rd) ==
    IF rd.err = Panic
    THEN [Seen(st, rd) EXCEPT !.done = TRUE, !.status = "panic", !.err = Panic]
    ELSE Decided(Appended(Delivered(Seen(st, rd), rd), rd), rd)

\* ResampleToMono16 before the first iteration of its loop: the pipeline is
\* built, pcm16 is empty.
Entered(s, targetRate, bufferSize, build, mixer) ==
    [m |-> NewMonoMixer(mixer), r |-> NewResampler(s, targetRate), src |-> s,
     bufferSize |-> bufferSize, build |-> build,
     pcm16 |-> <<>>, isNil |-> FALSE, rate |-> targetRate, err |-> Nil,
     done |-> FALSE, status |-> "running", failed |-> Nil,
     reads |-> 0, delivered |-> 0, mono |-> <<>>, lastN |-> 0]

\* One iteration of the drain loop of ResampleToMono16.
DrainOnce(st) ==
    Drained(st, MonoMixerReadSamples(st.m, st.r, st.src, st.bufferSize))

\* k iterations of the drain loop, stopping at the return (split in halves
\* only to keep the evaluation shallow).
RECURSIVE Drain(_, _)
Drain(st, k) ==
    IF st.done \/ k <= 0 THEN st
    ELSE IF k = 1 THEN DrainOnce(st)
    ELSE Drain(Drain(st, k \div 2), k - (k \div 2))

\* ResampleToMono16(src, targetRate, bufferSize): the whole call.  status is
\* "returned", "panic", or "running" when the loop has not ended after
\* MaxDriverIters iterations.  build is the build's conversion of a value
\* outside int16, mixer its version of MonoMixer.
ResampleToMono16(s, targetRate, bufferSize, build, mixer) ==
    Drain(Entered(s, targetRate, bufferSize, build, mixer), MaxDriverIters)

(* ------------------------------ Registry ------------------------------ *)

\* Goroutines that call the Registry at the same time.
NumGoroutines == 2

\* Most calls one goroutine makes.
MaxRegistryCalls == 2

Goroutines == 1..NumGoroutines

\* Format keys; the empty string is one of them.
Keys == {"", "wav"}

\* The nil Decoder.
NilDecoder == "nil"

\* Decoder values passed to Register.
Decoders == {"first", "second"}

\* A goroutine outside every call.
Idle == [pc |-> "idle", op |-> "none", format |-> "", d |-> NilDecoder,
         ok |-> FALSE, calls |-> 0]

\* NewRegistry(): an empty map and an unlocked mutex (mtx = 0; otherwise the
\* goroutine that holds it).  last and stored are history: the decoder of
\* the latest Register that took the lock, per key, and every <<key,
\* decoder>> a Register has stored.
NewRegistry ==
    [codecs |-> <<>>, mtx |-> 0, g |-> [i \in Goroutines |-> Idle],
     last |-> <<>>, stored |-> {}]

\* A Lock that never waits.
LockFreeAlways(rg) == TRUE

\* r.mtx.Lock() can return.
LockFree(rg) == rg.mtx = 0

\* A store that keeps the decoder a key already has.
MapStoreFirst(codecs, format, d) ==
    [k \in DOMAIN codecs \cup {format} |->
        IF k \in DOMAIN codecs THEN codecs[k] ELSE d]

\* r.codecs[format] = d
MapStore(codecs, format, d) ==
    [k \in DOMAIN codecs \cup {format} |-> IF k = format THEN d ELSE codecs[k]]

\* d, ok := r.codecs[format]
MapLoad(codecs, format) ==
    IF format \in DOMAIN codecs
    THEN [d |-> codecs[format], ok |-> TRUE]
    ELSE [d |-> NilDecoder, ok |-> FALSE]

(* ----------------------------- WAV writer ----------------------------- *)

\* const chunkSize = 8192 in WriteWAV16 (samples per Write call).
ChunkSize == 8192

\* A uint32 is kept as <<high 16 bits, low 16 bits>>, so that 2^32 - 1 and
\* the wrap at 2^32 are within reach of the checker's integers.
U32(n) == <<(n \div 65536) % 65536, n % 65536>>

\* a * k in uint32 for a small k.
U32MulSmall(a, k) ==
    <<(a[1] * k + ((a[2] * k) \div 65536)) % 65536, (a[2] * k) % 65536>>

\* a + k in uint32 for a small k.
U32AddSmall(a, k) ==
    <<(a[1] + ((a[2] + k) \div 65536)) % 65536, (a[2] + k) % 65536>>

\* binary.LittleEndian.PutUint16
PutUint16(v) == <<v % 256, v \div 256>>

\* binary.LittleEndian.PutUint32
PutUint32(a) == PutUint16(a[2]) \o PutUint16(a[1])

\* uint16(s) of an int16 s.
Uint16(s) == s % 65536

\* The bytes of an ASCII tag of the header.
Tag(name) ==
    CASE name = "RIFF" -> <<82, 73, 70, 70>>
      [] name = "WAVE" -> <<87, 65, 86, 69>>
      [] name = "fmt " -> <<102, 109, 116, 32>>
      [] name = "data" -> <<100, 97, 116, 97>>

\* A sample slice is its length and the rule that gives its elements;
\* Sample(samples, i) is samples[i], i counted from 0.
Sample(samples, i) ==
    CASE samples.gen = "ramp" -> (((i % 65536) * 4099) % 65536) - 32768
      [] samples.gen = "min" -> -32768
      [] samples.gen = "max" -> 32767
      [] samples.gen = "alt" -> IF i % 2 = 0 THEN -200 ELSE 4660

\* The 44-byte header WriteWAV16 builds for sampleRate and len(samples) = len.
\* dataSize := uint32(len(samples) * 2); riffSize := 36 + dataSize.
WavHeader(sampleRate, len) ==
    Tag("RIFF") \o PutUint32(U32AddSmall(U32MulSmall(U32(len), 2), 36))
    \o Tag("WAVE") \o Tag("fmt ") \o PutUint32(U32(16)) \o PutUint16(1)
    \o PutUint16(1) \o PutUint32(U32(sampleRate))
    \o PutUint32(U32MulSmall(U32MulSmall(U32(sampleRate), 1), 16 \div 8))
    \o PutUint16(1 * (16 \div 8)) \o PutUint16(16)
    \o Tag("data") \o PutUint32(U32MulSmall(U32(len), 2))

\* A writer: the Write calls it has accepted (the header bytes, then one
\* entry per chunk: the samples samples[from .. from+n-1] whose bytes the
\* call carried) and failAt, the number of the Write call that fails (0:
\* none fails).
NewWriter(failAt) == [header |-> <<>>, writes |-> <<>>, failAt |-> failAt]

\* The error a failing Write returns.
ErrWrite == [base |-> "ErrWrite", wraps |-> 0]

\* The number of iterations of for i := 0; i < len(samples); i += chunkSize.
Chunks(len) == (len \div ChunkSize) + (IF len % ChunkSize = 0 THEN 0 ELSE 1)

\* Iteration k (from 1) of the loop: i = (k-1) * chunkSize,
\* end = min(i + chunkSize, len(samples)), chunk = samples[i:end].
ChunkWrite(len, k) ==
    [from |-> (k - 1) * ChunkSize,
     n |-> IF len - (k - 1) * ChunkSize < ChunkSize
           THEN len - (k - 1) * ChunkSize ELSE ChunkSize]

\* Byte p (from 1) of the buf of one Write call:
\* PutUint16(buf[j*2:j*2+2], uint16(s)) for sample j of the chunk.
WriteByte(samples, wr, p) ==
    PutUint16(Uint16(Sample(samples, wr.from + ((p - 1) \div 2))))[((p - 1) % 2) + 1]

\* The Write calls of the first n iterations of the loop, as the writer
\* records them: consecutive calls of the same length are one run
\* [from, n, times], the run's first call carrying samples[from : from+n].
\* The full chunks form one run; a short last chunk is a run of its own.
WriteCalls(len, n) ==
    (IF Min(n, len \div ChunkSize) > 0
     THEN << [from |-> 0, n |-> ChunkSize,
              times |-> Min(n, len \div ChunkSize)] >>
     ELSE << >>)
    \o (IF n > len \div ChunkSize
        THEN << [from |-> ChunkWrite(len, n).from, n |-> ChunkWrite(len, n).n,
                 times |-> 1] >>
        ELSE << >>)

\* WriteWAV16 after the header was written: the chunk loop.  With a writer
\* whose Write number failAt fails, the loop returns at that call (the
\* header was Write number 1).
WriteChunks(w, len) ==
    IF len = 0 THEN [w |-> w, err |-> Nil]
    ELSE IF w.failAt > 1 /\ w.failAt - 1 <= Chunks(len)
    THEN [w |-> [w EXCEPT !.writes = WriteCalls(len, w.failAt - 2)],
          err |-> Wrap(ErrWrite)]
    ELSE [w |-> [w EXCEPT !.writes = WriteCalls(len, Chunks(len))],
          err |-> Nil]

\* WriteWAV16(w, sampleRate, samples).
WriteWAV16(w, sampleRate, samples) ==
    IF w.failAt = 1
    THEN [w |-> w, err |-> Wrap(ErrWrite)]
    ELSE WriteChunks([w EXCEPT !.header = WavHeader(sampleRate, samples.len)],
                     samples.len)

(* --------------------------- the state machine ------------------------ *)

VARIABLES
    src,    \* the upstream Source
    r,      \* the Resampler over src
    m,      \* the MonoMixer over r
    call,   \* the latest call and what it returned
    hist,   \* what the calls so far have shown
    drv,    \* the result of ResampleToMono16 over src
    reg     \* the decoder Registry and the goroutines that call it

vars == <<src, r, m, call, hist, drv, reg>>

\* Largest sample rate of a generated source or target.
MaxRate == 3

\* Largest channel count of a generated source.
MaxChannels == 3

Rates == 1..MaxRate

Builds == {"wrap", "saturate"}

\* The documented end-to-end run: 44100 mono frames of 0.5 at 44100 Hz,
\* ResampleToMono16(src, 8000, 4096).
E2ERate == 44100

E2EFrames == 44100

E2ETarget == 8000

E2EChunk == 4096

E2ESource == NewMockSource(E2ERate, 1, E2EFrames, "half", FALSE, 0)

\* The rate pairs <<source, target>>: in lowest terms, or equal.
RatePairs ==
    { p \in Rates \X Rates : GCD(p[1], p[2]) = 1 \/ p[1] = p[2] }

\* The sources and target rates the model starts from: sources that deliver
\* all their frames, sources that fail (in the priming reads, or at the
\* first window advance), and the end-to-end run.
Configs ==
    { [src |-> NewMockSource(p[1], ch, total, w, lazy, 0), dstRate |-> p[2]] :
        p \in RatePairs, ch \in 1..MaxChannels, total \in 0..MaxFrames,
        w \in {"chan", "ramp"}, lazy \in BOOLEAN }
    \cup
    { [src |-> NewMockSource(p[1], ch, MaxFrames, "ramp", lazy, failAt),
       dstRate |-> p[2]] :
        p \in RatePairs, ch \in 1..MaxChannels, lazy \in BOOLEAN,
        failAt \in {2, 5} }
    \cup { [src |-> E2ESource, dstRate |-> E2ETarget] }

NoCall ==
    [op |-> "none", len |-> 0, n |-> 0, err |-> Nil, out |-> <<>>,
     up |-> NoUpstream, afterEOF |-> FALSE]

NoRun == [status |-> "none"]

\* Nothing was called yet.  mixEOF records that a read of the MonoMixer
\* returned io.EOF.
NoHist ==
    [calls |-> 0, user |-> "none", eof0 |-> FALSE, frames |-> 0,
     drained |-> -1, mixEOF |-> FALSE]

\* The pipelines built over a source: a Resampler alone, or a MonoMixer of
\* either version over a Resampler.  The end-to-end source is mono, where
\* the versions do not differ.
Mixers(s) ==
    IF s.sampleRate = E2ERate THEN {NewMonoMixer("doc.go")}
    ELSE {NoMixer} \cup {NewMonoMixer(v) : v \in MixerVersions}

Init ==
    \E cfg \in Configs :
        /\ src = cfg.src
        /\ r = NewResampler(cfg.src, cfg.dstRate)
        /\ m \in Mixers(cfg.src)
        /\ call = NoCall
        /\ hist = NoHist
        /\ drv = NoRun
        /\ reg = NewRegistry

IsE2E == src.sampleRate = E2ERate

\* hist after a read of the Resampler with a buffer of len samples: eof0
\* records an answer (0, io.EOF) to a valid non-empty buffer, frames the
\* output frames so far, drained the output frames at the first io.EOF.
Observe(h, up) ==
    IF ~up.called THEN [h EXCEPT !.calls = @ + 1]
    ELSE
    LET fr == h.frames + (up.n \div r.channels)
    IN  [h EXCEPT !.calls = @ + 1,
                  !.eof0 = @ \/ (up.len > 0 /\ up.len % r.channels = 0
                                 /\ up.n = 0 /\ up.err = EOF),
                  !.frames = fr,
                  !.drained = IF @ < 0 /\ up.err = EOF THEN fr ELSE @]

\* The buffer lengths of direct reads of a stage with ch channels: whole
\* frames, and one sample more than whole frames.
ReadLens(ch) ==
    { len \in 0..MaxBuf * ch : len % ch = 0 \/ (len % ch = 1 /\ len < ch * 2) }

\* The state after a direct read of the Resampler returned rd.
ResamplerReturn(len, rd) ==
    /\ r' = rd.r
    /\ src' = rd.src
    /\ call' = [op |-> "resampler", len |-> len, n |-> rd.n, err |-> rd.err,
                out |-> rd.out, up |-> Upstream(len, rd),
                afterEOF |-> hist.eof0]
    /\ hist' = [Observe(hist, Upstream(len, rd)) EXCEPT !.user = "resampler"]

\* A caller that owns the Resampler reads it (callers close last).
ResamplerRead(len) ==
    /\ drv = NoRun
    /\ src.closes = 0
    /\ m = NoMixer
    /\ IsResampler(r)
    /\ ~IsE2E
    /\ hist.user \in {"none", "resampler"}
    /\ hist.calls < MaxCalls
    /\ ResamplerReturn(len, ReadSamples(r, src, len))
    /\ UNCHANGED <<m, drv, reg>>

\* The state after a read of the MonoMixer returned rd.
MixerReturn(len, rd) ==
    /\ m' = rd.m
    /\ r' = rd.r
    /\ src' = rd.src
    /\ call' = [op |-> "mixer", len |-> len, n |-> rd.n, err |-> rd.err,
                out |-> rd.out, up |-> rd.up, afterEOF |-> hist.eof0]
    /\ hist' = [Observe(hist, rd.up) EXCEPT !.user = "mixer",
                                            !.mixEOF = @ \/ rd.err = EOF]

\* A caller that owns the MonoMixer (which owns the Resampler) reads it.
MixerRead(len) ==
    /\ drv = NoRun
    /\ src.closes = 0
    /\ m # NoMixer
    /\ ~IsE2E
    /\ hist.user \in {"none", "mixer"}
    /\ hist.calls < (IF IsResampler(r) THEN MaxMixerCalls ELSE MaxCalls)
    /\ MixerReturn(len, MonoMixerReadSamples(m, r, src, len))
    /\ UNCHANGED <<drv, reg>>

\* The chunk sizes ResampleToMono16 is run with.
ChunkSizes == IF IsE2E THEN {E2EChunk} ELSE (1..MaxBuf) \cup {E2EChunk}

\* ResampleToMono16 over the unread source.
Drive(bufferSize, build) ==
    /\ drv = NoRun
    /\ m # NoMixer
    /\ IsResampler(r)
    /\ hist.calls = 0
    /\ drv' = ResampleToMono16(src, r.dstRate, bufferSize, build, m.version)
    /\ src' = drv'.src
    /\ call' = [NoCall EXCEPT !.op = "driver", !.len = bufferSize]
    /\ UNCHANGED <<r, m, hist, reg>>

Next ==
    \/ \E len \in ReadLens(r.channels) : ResamplerRead(len)
    \/ \E len \in ReadLens(1) : MixerRead(len)
    \/ \E b \in ChunkSizes, build \in Builds : Drive(b, build)

Spec == Init /\ [][Next]_vars

(* ----------------------- the quantizer alone -------------------------- *)

\* The samples handed to the quantizer are the multiples of 1/QDen from
\* -QMaxNum/QDen to QMaxNum/QDen: 0, 1, -1, 1/2, and values beyond 1 and -1.
QDen == 8

QMaxNum == 12

QInputs == { Q(k, QDen) : k \in (-QMaxNum)..QMaxNum }

\* A caller converts the samples x and y with one build of the package.
\* The function keeps no state, so one call per behaviour shows all of it.
Quantize(x, y, build) ==
    /\ call = NoCall
    /\ call' = [op |-> "quantize", x |-> x, y |-> y, build |-> build,
                fx |-> Float32ToInt16(x), fy |-> Float32ToInt16(y),
                px |-> Float32ToInt16Pow2(x, build)]
    /\ UNCHANGED <<src, r, m, hist, drv, reg>>

InitQ ==
    /\ src = NewMockSource(1, 1, 0, "chan", FALSE, 0)
    /\ r = NoResampler(src)
    /\ m = NoMixer
    /\ call = NoCall
    /\ hist = NoHist
    /\ drv = NoRun
    /\ reg = NewRegistry

NextQ == \E x \in QInputs, y \in QInputs, build \in Builds : Quantize(x, y, build)

SpecQ == InitQ /\ [][NextQ]_vars

(* ---------------------- the interpolator alone ------------------------ *)

\* The float32 samples handed to CubicInterpolate, in units of 2^-25:
\* -1, -0.9, -0.5, 0, 0.6, 0.9 and 1 as float32 holds them.
F32Inputs ==
    {-(2^25), -30198988, -(2^24), 0, 20132660, 30198988, 2^25}

\* The ends of a segment: x = 0.0 and x = 1.0, in units.
SegmentEnds == {0, F32One}

\* A caller interpolates at an end of the segment between y1 and y2.  The
\* function keeps no state, so one call per behaviour shows all of it.
Interpolate(y0, y1, y2, y3, x) ==
    /\ call = NoCall
    /\ call' = [op |-> "interpolate", y0 |-> y0, y1 |-> y1, y2 |-> y2,
                y3 |-> y3, x |-> x,
                result |-> CubicInterpolateF32(y0, y1, y2, y3, x)]
    /\ UNCHANGED <<src, r, m, hist, drv, reg>>

NextI ==
    \E y0 \in F32Inputs, y1 \in F32Inputs, y2 \in F32Inputs, y3 \in F32Inputs,
       x \in SegmentEnds : Interpolate(y0, y1, y2, y3, x)

SpecI == InitQ /\ [][NextI]_vars

(* ------------------------- the Registry alone ------------------------- *)

\* Goroutine i calls Register(format, d) or Get(format) and reaches Lock.
RegistryCall(i, op, format, d) ==
    /\ reg.g[i].pc = "idle"
    /\ reg.g[i].calls < MaxRegistryCalls
    /\ reg' = [reg EXCEPT !.g[i] = [pc |-> "lock", op |-> op, format |-> format,
                                     d |-> d, ok |-> FALSE, calls |-> @.calls + 1]]
    /\ UNCHANGED <<src, r, m, call, hist, drv>>

\* r.mtx.Lock() returns in goroutine i.
RegistryLock(i) ==
    /\ reg.g[i].pc = "lock"
    /\ LockFree(reg)
    /\ reg' = [reg EXCEPT !.mtx = i, !.g[i].pc = "map",
                          !.last = IF reg.g[i].op = "Register"
                                   THEN [k \in DOMAIN @ \cup {reg.g[i].format} |->
                                           IF k = reg.g[i].format
                                           THEN reg.g[i].d ELSE @[k]]
                                   ELSE @]
    /\ UNCHANGED <<src, r, m, call, hist, drv>>

\* r.codecs[format] = d in Register.
RegisterStore(i) ==
    /\ reg.g[i].pc = "map"
    /\ reg.g[i].op = "Register"
    /\ reg' = [reg EXCEPT !.codecs = MapStore(@, reg.g[i].format, reg.g[i].d),
                          !.stored = @ \cup {<<reg.g[i].format, reg.g[i].d>>},
                          !.g[i].pc = "unlock"]
    /\ UNCHANGED <<src, r, m, call, hist, drv>>

\* d, ok := r.codecs[format] in Get.
GetLoad(i) ==
    /\ reg.g[i].pc = "map"
    /\ reg.g[i].op = "Get"
    /\ reg' = [reg EXCEPT !.g[i].d = MapLoad(reg.codecs, reg.g[i].format).d,
                          !.g[i].ok = MapLoad(reg.codecs, reg.g[i].format).ok,
                          !.g[i].pc = "unlock"]
    /\ UNCHANGED <<src, r, m, call, hist, drv>>

\* The deferred r.mtx.Unlock() and the return of the call.
RegistryUnlock(i) ==
    /\ reg.g[i].pc = "unlock"
    /\ reg' = [reg EXCEPT !.mtx = 0, !.g[i].pc = "idle"]
    /\ UNCHANGED <<src, r, m, call, hist, drv>>

NextR ==
    \/ \E i \in Goroutines, format \in Keys, d \in Decoders :
          RegistryCall(i, "Register", format, d)
    \/ \E i \in Goroutines, format \in Keys :
          RegistryCall(i, "Get", format, NilDecoder)
    \/ \E i \in Goroutines : RegistryLock(i)
    \/ \E i \in Goroutines : RegisterStore(i)
    \/ \E i \in Goroutines : GetLoad(i)
    \/ \E i \in Goroutines : RegistryUnlock(i)

SpecR == InitQ /\ [][NextR]_vars

(* ----------------------- the WAV writer alone ------------------------- *)

\* The sample slices written: lengths around the write chunk of 8192
\* samples with every element rule, and the longest slices, whose byte
\* count reaches 2^32.
WavSlices ==
    { [len |-> len, gen |-> gen] :
        len \in {0, 1, 4, 8191, 8192, 8193, 16384, 20000},
        gen \in {"ramp", "min", "max", "alt"} }
    \cup { [len |-> len, gen |-> "alt"] : len \in {2147483629, 2147483630} }

WavRates == {8000, 16000, 44100, 48000}

\* The writers: one that accepts every Write, and writers whose first,
\* second or third Write fails.
WavWriters == { NewWriter(failAt) : failAt \in 0..3 }

\* A caller writes a sample slice.  The function keeps no state, so one
\* call per behaviour shows all of it.
WriteFile(w, sampleRate, samples) ==
    /\ call = NoCall
    /\ call' = [op |-> "WriteWAV16", sampleRate |-> sampleRate,
                samples |-> samples,
                w |-> WriteWAV16(w, sampleRate, samples).w,
                err |-> WriteWAV16(w, sampleRate, samples).err]
    /\ UNCHANGED <<src, r, m, hist, drv, reg>>

NextW ==
    \E w \in WavWriters, sampleRate \in WavRates, samples \in WavSlices :
        WriteFile(w, sampleRate, samples)

SpecW == InitQ /\ [][NextW]_vars

(* ------------------------- the stages alone --------------------------- *)

\* Most Close calls in one behaviour.
MaxCloses == 2

\* The sources under a stage: sources that deliver all their frames or fail
\* at their second read, and whose Close returns nil or fails.
StageSources ==
    { [NewMockSource(1, ch, total, w, lazy, failAt) EXCEPT !.closeErr = e] :
        ch \in 1..MaxChannels, total \in 0..MaxFrames, w \in {"chan", "ramp"},
        lazy \in BOOLEAN, failAt \in {0, 2}, e \in {Nil, ErrClose} }

\* A MonoMixer of either version directly over a source, and the stages of
\* ResampleToMono16 (a Resampler, with or without a MonoMixer) over the
\* eager sources that deliver all their frames.
Pipelines ==
    { [src |-> s, r |-> NoResampler(s), m |-> NewMonoMixer(v)] :
        s \in StageSources, v \in MixerVersions }
    \cup
    { [src |-> s, r |-> NewResampler(s, 2), m |-> mx] :
        s \in { t \in StageSources : ~t.lazy /\ t.failAt = 0 /\ t.waveform = "chan" },
        mx \in {NoMixer} \cup {NewMonoMixer(v) : v \in MixerVersions} }

InitM ==
    \E p \in Pipelines :
        /\ src = p.src
        /\ r = p.r
        /\ m = p.m
        /\ call = NoCall
        /\ hist = NoHist
        /\ drv = NoRun
        /\ reg = NewRegistry

\* The state after a Close of the outermost stage returned cl.
CloseReturn(op, cl) ==
    /\ src' = cl.src
    /\ call' = [op |-> op, len |-> 0, n |-> 0, err |-> cl.err, out |-> <<>>,
                up |-> [NoUpstream EXCEPT !.err = cl.upErr],
                afterEOF |-> hist.eof0, closes |-> cl.src.closes - src.closes]
    /\ UNCHANGED <<r, m, hist, drv, reg>>

\* A caller that owns the Resampler closes it.
ResamplerCloseCall ==
    /\ m = NoMixer
    /\ IsResampler(r)
    /\ src.closes < MaxCloses
    /\ CloseReturn("resampler.Close", ResamplerClose(r, src))

\* A caller that owns the MonoMixer closes it.
MixerCloseCall ==
    /\ m # NoMixer
    /\ src.closes < MaxCloses
    /\ CloseReturn("mixer.Close", MonoMixerClose(r, src))

NextM ==
    \/ \E len \in ReadLens(r.channels) : ResamplerRead(len)
    \/ \E len \in ReadLens(1) : MixerRead(len)
    \/ ResamplerCloseCall
    \/ MixerCloseCall

SpecM == InitM /\ [][NextM]_vars

(* ------------------ the Resampler over a stalling upstream ------------ *)

\* Sources that answer one of their reads with (0, nil).
StallingSources ==
    { NewStallingSource(p[1], ch, total, "ramp", stallAt) :
        p \in RatePairs, ch \in 1..2, total \in 1..MaxFrames,
        stallAt \in 1..MaxFrames }

InitS ==
    /\ src \in StallingSources
    /\ \E dstRate \in Rates :
          /\ GCD(src.sampleRate, dstRate) = 1 \/ src.sampleRate = dstRate
          /\ r = NewResampler(src, dstRate)
    /\ m = NoMixer
    /\ call = NoCall
    /\ hist = NoHist
    /\ drv = NoRun
    /\ reg = NewRegistry

NextS == \E len \in ReadLens(r.channels) : ResamplerRead(len)

SpecS == InitS /\ [][NextS]_vars

(* ----------------------- the drain loop by steps ---------------------- *)

\* The chunk sizes of the stepwise runs: every size from 0 on.
StepChunkSizes == 0..MaxBuf

\* Most frames of a source of the stepwise runs.
StepFrames == 3

\* The sources and target rates of the stepwise runs: sources that deliver
\* all their frames and sources whose second read fails.
StepConfigs ==
    { [src |-> NewMockSource(p[1], ch, total, "ramp", lazy, failAt),
       dstRate |-> p[2]] :
        p \in RatePairs, ch \in 1..2, total \in 0..StepFrames,
        lazy \in BOOLEAN, failAt \in {0, 2} }

\* Iterations of a stepwise run that are counted (drv.reads stays there).
MaxCounted == 4

\* ResampleToMono16 is entered over an unread source: the run is at the top
\* of its loop.
Enter(cfg, bufferSize, build, mixer) ==
    /\ drv = NoRun
    /\ src' = cfg.src
    /\ r' = NewResampler(cfg.src, cfg.dstRate)
    /\ m' = NewMonoMixer(mixer)
    /\ drv' = Entered(cfg.src, cfg.dstRate, bufferSize, build, mixer)
    /\ call' = [NoCall EXCEPT !.op = "driver", !.len = bufferSize]
    /\ UNCHANGED <<hist, reg>>

\* The run is at the top of its loop.
AtLoopTop == drv # NoRun /\ ~drv.done /\ call.op = "driver"

\* The run has read and has not tested err yet.
AtLoopTest == drv # NoRun /\ ~drv.done /\ call.op = "driver read"

\* The first half of an iteration after its mixer read rd:
\* n, err := mono.ReadSamples(buf); if n > 0 { ... }.
ReadAndAppended(st, rd) ==
    IF rd.err = Panic
    THEN [Seen(st, rd) EXCEPT !.done = TRUE, !.status = "panic", !.err = Panic]
    ELSE Appended(Delivered(Seen(st, rd), rd), rd)

DrainReadReturn(rd) ==
    /\ drv' = [ReadAndAppended(drv, rd) EXCEPT !.reads = Min(@, MaxCounted)]
    /\ src' = rd.src
    /\ call' = [call EXCEPT !.op = "driver read", !.n = rd.n, !.err = rd.err]

\* The first half of an iteration: the read and the conversion of its
\* samples.
DrainRead ==
    /\ AtLoopTop
    /\ DrainReadReturn(MonoMixerReadSamples(drv.m, drv.r, drv.src,
                                            drv.bufferSize))
    /\ UNCHANGED <<r, m, hist, reg>>

\* The second half: if err == io.EOF { break }; if err != nil { return };
\* otherwise back to the top of the loop.
DrainTest ==
    /\ AtLoopTest
    /\ drv' = Decided(drv, [err |-> call.err])
    /\ call' = [call EXCEPT !.op = "driver", !.n = 0, !.err = Nil]
    /\ UNCHANGED <<src, r, m, hist, reg>>

NextD ==
    \/ \E cfg \in StepConfigs, bufferSize \in StepChunkSizes,
          build \in Builds, mixer \in MixerVersions :
          Enter(cfg, bufferSize, build, mixer)
    \/ DrainRead
    \/ DrainTest

\* The run goes on while it has not returned: weak fairness of both halves
\* of the iteration.  That of DrainRead is written out, with AtLoopTop for
\* ENABLED <<DrainRead>>_vars (the read moves the run to the test).
SpecD ==
    /\ InitQ /\ [][NextD]_vars
    /\ WF_vars(DrainTest)
    /\ ([]<>(~AtLoopTop) \/ []<><<DrainRead>>_vars)

(* -------------------- the cursor in floating point --------------------- *)

\* r.ratio and r.pos are float64, alpha := float32(r.pos).  A value v >= 0
\* is the pair <<hi, lo>> with v = (hi * 2^28 + lo) * 2^-54, 0 <= lo < 2^28:
\* for rates up to 4 every float64 the cursor takes is a whole number of
\* these units.
Limb == 2^28

\* 1.0
F64One == <<2^26, 0>>

\* The float64 spacing, in units, at a value with high limb hi (1 unit
\* below 1/2, 2 units in [1/2, 1), 4 in [1, 2), ...).
F64Spacing(hi) ==
    IF hi >= 2^28 THEN 16 ELSE IF hi >= 2^27 THEN 8 ELSE IF hi >= 2^26 THEN 4
    ELSE IF hi >= 2^25 THEN 2 ELSE 1

\* hi * 2^28 + lo + fn/fd (0 <= fn < fd) rounded to a multiple of u units,
\* u a power of two up to 2^28, to nearest, ties to even; a carry out of
\* the low limb moves into the high one.
RoundLow(hi, lo, fn, fd, u) ==
    IF \/ 2 * ((lo % u) * fd + fn) > u * fd
       \/ (2 * ((lo % u) * fd + fn) = u * fd /\ (lo \div u) % 2 = 1)
    THEN <<hi + ((lo - (lo % u) + u) \div Limb), (lo - (lo % u) + u) % Limb>>
    ELSE <<hi, lo - (lo % u)>>

\* hi * 2^28 + lo rounded to a multiple of uh * 2^28 units, uh a power of
\* two, to nearest, ties to even.
RoundHigh(hi, lo, uh) ==
    IF \/ 2 * (hi % uh) > uh
       \/ (2 * (hi % uh) = uh /\ lo > 0)
       \/ (uh = 1 /\ 2 * lo > Limb)
       \/ ( /\ (IF uh = 1 THEN 2 * lo = Limb ELSE 2 * (hi % uh) = uh /\ lo = 0)
            /\ (hi \div uh) % 2 = 1 )
    THEN <<hi - (hi % uh) + uh, 0>>
    ELSE <<hi - (hi % uh), 0>>

\* a + b in float64: the exact sum, rounded.
F64Add(a, b) ==
    LET hi == a[1] + b[1] + ((a[2] + b[2]) \div Limb)
    IN  RoundLow(hi, (a[2] + b[2]) % Limb, 0, 1, F64Spacing(hi))

\* float64(s) / float64(d) for small positive integers: the quotient
\* s * 2^54 / d by long division, rounded.
F64Div(s, d) ==
    LET hi  == (s * 2^26) \div d
        rem == (s * 2^26) % d
    IN  RoundLow(hi, (rem * Limb) \div d, (rem * Limb) % d, d, F64Spacing(hi))

\* The position of the highest 1 bit of n >= 1 (0 for n = 1).
RECURSIVE TopBit(_)
TopBit(n) == IF n <= 1 THEN 0 ELSE 1 + TopBit(n \div 2)

\* float32(v) for a float64 v >= 0: 24 significant bits are kept.
Float32(v) ==
    IF v[1] >= 2^23 THEN RoundHigh(v[1], v[2], 2^(TopBit(v[1]) - 23))
    ELSE IF v[1] > 0 THEN RoundLow(v[1], v[2], 0, 1, 2^(TopBit(v[1]) + 5))
    ELSE IF v[2] >= 2^24 THEN RoundLow(0, v[2], 0, 1, 2^(TopBit(v[2]) - 23))
    ELSE v

\* for r.pos >= 1.0 { r.pos -= 1.0; fetchNextFrame() } over an upstream
\* that goes on delivering frames (the difference is exact).
RECURSIVE Reduced(_)
Reduced(pos) ==
    IF pos[1] >= F64One[1] THEN Reduced(<<pos[1] - F64One[1], pos[2]>>)
    ELSE pos

\* Output frames followed for one cursor.
MaxCursorFrames == 16

\* NewResampler: ratio := float64(src.SampleRate()) / float64(dstRate),
\* pos: 0.
NewCursor(srcRate, dstRate) ==
    /\ call = NoCall
    /\ call' = [op |-> "cursor", srcRate |-> srcRate, dstRate |-> dstRate,
                ratio |-> F64Div(srcRate, dstRate), pos |-> <<0, 0>>,
                alpha |-> <<0, 0>>, written |-> 0]
    /\ UNCHANGED <<src, r, m, hist, drv, reg>>

\* One iteration of the output loop of ReadSamples: the reduction, then
\* alpha := float32(r.pos), the interpolation, written++, r.pos += r.ratio.
CursorFrame ==
    /\ call.op = "cursor"
    /\ call.written < MaxCursorFrames
    /\ LET p == Reduced(call.pos)
       IN  call' = [call EXCEPT !.alpha = Float32(p), !.written = @ + 1,
                                !.pos = F64Add(p, call.ratio)]
    /\ UNCHANGED <<src, r, m, hist, drv, reg>>

NextP ==
    \/ \E srcRate \in Rates, dstRate \in Rates : NewCursor(srcRate, dstRate)
    \/ CursorFrame

SpecP == InitQ /\ [][NextP]_vars

(* -------------------------------- claims ------------------------------ *)

\* C1: once Resampler.ReadSamples has returned (0, io.EOF) over an upstream
\* whose exhaustion is permanent, every later call with a valid non-empty
\* buffer returns (0, io.EOF) and writes nothing.
C1_ExhaustionPermanent ==
    ( /\ call.op = "resampler"
      /\ call.afterEOF
      /\ src.failAt = 0
      /\ call.len > 0
      /\ call.len % r.channels = 0 )
    => (call.n = 0 /\ call.err = EOF /\ call.out = <<>>)

\* The source of the run, as it was before the run read it.
Unread(s) ==
    NewMockSource(s.sampleRate, s.channels, s.totalSamples, s.waveform,
                  s.lazy, s.failAt)

\* What a caller of ResampleToMono16 sees of a run.
Outcome(d) == <<d.status, d.pcm16, d.isNil, d.rate, d.err>>

\* C2: for every source, target rate and any two chunk sizes >= 1,
\* ResampleToMono16 returns the same samples, the same rate and the same
\* error outcome.
C2_ChunkSizeIrrelevant ==
    (drv.status # "none" /\ ~IsE2E)
    => \A b2 \in ChunkSizes :
          Outcome(ResampleToMono16(Unread(src), r.dstRate, b2, drv.build,
                                   drv.m.version))
            = Outcome(drv)

\* A run of ResampleToMono16 that ended in clean exhaustion.
CleanRun ==
    drv.status = "returned" /\ ~drv.isNil /\ drv.err = Nil /\ drv.failed = Nil

\* C3: on clean exhaustion ResampleToMono16 returns, in order, one int16 per
\* mono sample the MonoMixer delivered, the samples of the read that
\* reported io.EOF included, and the rate is targetRate.
C3_AllDeliveredReturned ==
    CleanRun
    => /\ Len(drv.pcm16) = drv.delivered
       /\ drv.pcm16 = [i \in 1..Len(drv.mono) |->
                         InlineToInt16(drv.mono[i], drv.build)]
       /\ drv.rate = r.dstRate

\* C3 witness: a clean run of several reads whose last read delivered
\* samples together with io.EOF.
C3_Witness ==
    CleanRun /\ drv.reads >= 2 /\ drv.lastN > 0 /\ drv.delivered > drv.lastN

\* C4: draining a Resampler over N whole seconds at rate Rs (N * Rs frames)
\* to rate Rt yields N * Rt output frames, give or take 1% of Rt.  The
\* drain is the loop of ResampleToMono16 over a mono source, where the
\* MonoMixer hands each buffer to the Resampler as it is.
C4_OutputCount ==
    ( /\ drv.status # "none"
      /\ src.channels = 1
      /\ src.failAt = 0
      /\ src.totalSamples > 0
      /\ src.totalSamples % src.sampleRate = 0 )
    => /\ CleanRun
       /\ 100 * Abs(drv.delivered
                    - (src.totalSamples \div src.sampleRate) * r.dstRate)
            <= r.dstRate

\* C5: 44100 mono frames of 0.5 at 44100 Hz through
\* ResampleToMono16(src, 8000, 4096) give exactly 8000 samples, each within
\* 1 of 16383, and no error.
C5_EndToEnd ==
    (IsE2E /\ drv.status # "none")
    => /\ drv.status = "returned"
       /\ drv.err = Nil
       /\ ~drv.isNil
       /\ Len(drv.pcm16) = E2ETarget
       /\ \A i \in 1..Len(drv.pcm16) : Abs(drv.pcm16[i] - 16383) <= 1

\* C5 witness: the end-to-end run has returned its samples.
C5_Witness ==
    /\ IsE2E
    /\ drv.status = "returned"
    /\ call.len = E2EChunk
    /\ Len(drv.pcm16) > 0
    /\ drv.reads >= 2

\* C6: at equal rates ResampleToMono16 over a mono source of N frames
\* returns exactly N samples.
C6_EqualRates ==
    ( /\ drv.status # "none"
      /\ src.channels = 1
      /\ src.failAt = 0
      /\ src.sampleRate = r.dstRate )
    => (CleanRun /\ Len(drv.pcm16) = src.totalSamples)

\* C7: ResampleToMono16 over a source of zero frames returns zero samples,
\* no failure, and targetRate, for every rate, channel count and chunk size.
C7_EmptySource ==
    (drv.status # "none" /\ src.totalSamples = 0 /\ src.failAt = 0)
    => /\ drv.status = "returned"
       /\ Len(drv.pcm16) = 0
       /\ drv.err \in {Nil, EOF}
       /\ drv.rate = r.dstRate

\* C8: when a read in the pipeline reports an error other than io.EOF,
\* ResampleToMono16 returns a nil slice, targetRate and an error wrapping
\* that error.
C8_HardError ==
    (drv.status # "none" /\ drv.failed # Nil)
    => /\ drv.status = "returned"
       /\ drv.isNil /\ drv.pcm16 = <<>>
       /\ drv.rate = r.dstRate
       /\ drv.err = Wrap(drv.failed)

\* C9: Resampler.ReadSamples with a buffer whose length
\* is not a multiple of Channels() returns (0, ErrInvalidDstSize), reads
\* nothing from upstream and leaves the Resampler as it was, in every state.
C9_InvalidSizeNoEffect ==
    [][ ( /\ call'.op = "resampler"
          /\ hist'.calls = hist.calls + 1
          /\ call'.len % r.channels # 0 )
        => ( /\ call'.n = 0
             /\ call'.err = ErrInvalidDstSize
             /\ call'.out = <<>>
             /\ r' = r
             /\ src' = src ) ]_vars

\* C9 witness: a misaligned read of a Resampler that has produced output
\* and has already answered (0, io.EOF).
C9_Witness ==
    /\ call.op = "resampler"
    /\ call.len % r.channels # 0
    /\ call.err = ErrInvalidDstSize
    /\ call.afterEOF
    /\ hist.frames > 0

\* C10: over a source whose frames all carry V_c on channel c, every sample
\* the Resampler outputs for channel c is V_c, for every ratio and buffer
\* size.
C10_ConstantPreserved ==
    /\ (src.waveform = "chan" /\ call.op \in {"resampler", "mixer"})
       => \A i \in 1..Len(call.up.out) :
             call.up.out[i] = Waveform("chan", 0, (i - 1) % r.channels)
    /\ (src.waveform = "chan" /\ drv.status # "none" /\ src.channels = 1)
       => \A i \in 1..Len(drv.mono) : drv.mono[i] = Waveform("chan", 0, 0)

\* C10 witness: a later read of a downsampling Resampler (filter active)
\* over a constant multi-channel source that produced several frames.
C10_Witness ==
    /\ src.waveform = "chan"
    /\ call.op = "resampler"
    /\ r.useFilter
    /\ r.channels >= 2
    /\ hist.calls >= 2
    /\ call.n >= 2 * r.channels

\* C11: Float32ToInt16(0.0) = 0, Float32ToInt16(1.0) = 32767 and
\* Float32ToInt16(-1.0) = -32768.
C11_FixedPoints ==
    call.op = "quantize"
    => /\ (call.x = Zero => call.fx = 0)
       /\ (call.x = One => call.fx = 32767)
       /\ (call.x = QNeg(One) => call.fx = -32768)

C14_StoredAsQuantized ==
    (drv.status = "returned" /\ ~drv.isNil)
    => /\ Len(drv.pcm16) = Len(drv.mono)
       /\ \A i \in 1..Len(drv.pcm16) :
             drv.pcm16[i] = Float32ToInt16(drv.mono[i])

C16_MonoPassThrough ==
    [][ ( /\ call'.op = "mixer"
          /\ hist'.calls = hist.calls + 1
          /\ call'.len > 0
          /\ r.channels = 1 )
        => ( /\ call'.n = UpstreamRead(r, src, call'.len).n
             /\ call'.err = UpstreamRead(r, src, call'.len).err
             /\ call'.out = UpstreamRead(r, src, call'.len).out
             /\ r' = UpstreamRead(r, src, call'.len).r
             /\ src' = UpstreamRead(r, src, call'.len).src
             /\ (~IsResampler(r) => src'.reads = src.reads + 1)
             /\ m' = m ) ]_vars

\* C16 witness: a later read of a mixer over a mono source passed samples
\* and io.EOF through.
C16_Witness ==
    /\ call.op = "mixer"
    /\ r.channels = 1
    /\ ~IsResampler(r)
    /\ hist.calls >= 2
    /\ call.n > 0
    /\ call.err = EOF
    /\ m = NewMonoMixer(m.version)

\* C17: over an upstream that has F frames left, 0 < F < len(dst), and
\* reports io.EOF with its last data, MonoMixer.ReadSamples returns
\* (F, io.EOF) with the F averaged frames, and every following read with a
\* non-empty dst returns (0, io.EOF).
C17_ShortFinalRead ==
    [][ ( /\ call'.op = "mixer"
          /\ hist'.calls = hist.calls + 1
          /\ call'.len > 0
          /\ ~IsResampler(r)
          /\ ~src.lazy
          /\ src.failAt = 0 )
        => ( /\ ( ( /\ 0 < src.totalSamples - src.generated
                    /\ src.totalSamples - src.generated < call'.len )
                  => /\ call'.n = src.totalSamples - src.generated
                     /\ call'.err = EOF
                     /\ Len(call'.out) = call'.n
                     /\ \A f \in 1..call'.n :
                           QMul(call'.out[f], <<r.channels, 1>>)
                             = FrameSum([i \in 1..(call'.n * r.channels) |->
                                           Waveform(src.waveform,
                                                    src.generated + ((i - 1) \div r.channels),
                                                    (i - 1) % r.channels)],
                                        f - 1, r.channels, r.channels) )
             /\ ( hist.mixEOF
                  => call'.n = 0 /\ call'.err = EOF /\ call'.out = <<>> ) ) ]_vars

\* C17 witness: a later read with room for 2 frames of a multi-channel
\* source that had 1 frame left returned (1, io.EOF).
C17_Witness ==
    /\ call.op = "mixer"
    /\ ~IsResampler(r)
    /\ ~src.lazy
    /\ src.failAt = 0
    /\ r.channels >= 2
    /\ hist.calls = 2
    /\ call.len = 2
    /\ call.n = 1
    /\ call.err = EOF

\* C18: MonoMixer.ReadSamples with a zero-length dst returns (0, nil) in
\* every state, reads nothing from upstream and changes nothing.
C18_EmptyDstNoEffect ==
    [][ ( /\ call'.op = "mixer"
          /\ hist'.calls = hist.calls + 1
          /\ call'.len = 0 )
        => ( /\ call'.n = 0
             /\ call'.err = Nil
             /\ call'.out = <<>>
             /\ ~call'.up.called
             /\ m' = m
             /\ r' = r
             /\ src' = src ) ]_vars

\* C18 witness: a zero-length read of a mixer over a multi-channel source
\* after the mixer has returned io.EOF.
C18_Witness ==
    /\ call.op = "mixer"
    /\ call.len = 0
    /\ r.channels >= 2
    /\ hist.mixEOF
    /\ src.reads > 0

\* C19: Resampler.ReadSamples with a zero-length buffer returns (0, nil) in
\* every state, the unprimed Resampler and the empty or exhausted upstream
\* included, reads nothing from upstream and leaves the Resampler as it was.
C19_EmptyBufferNoEffect ==
    [][ ( /\ call'.op = "resampler"
          /\ hist'.calls = hist.calls + 1
          /\ call'.len = 0 )
        => ( /\ call'.n = 0
             /\ call'.err = Nil
             /\ call'.out = <<>>
             /\ r' = r
             /\ src' = src ) ]_vars

\* C20: MonoMixer.Close and Resampler.Close call Close on the wrapped source
\* exactly once, return nil when the upstream Close returns nil and an error
\* wrapping the upstream's error otherwise, whether the stage was drained,
\* partly read or never read.
C20_ClosePropagates ==
    call.op \in {"resampler.Close", "mixer.Close"}
    => /\ call.closes = 1
       /\ call.up.err = (IF call.op = "mixer.Close" /\ IsResampler(r)
                         THEN (IF src.closeErr = Nil THEN Nil
                               ELSE Wrap(src.closeErr))
                         ELSE src.closeErr)
       /\ (call.up.err = Nil => call.err = Nil)
       /\ (call.up.err # Nil
           => /\ call.err.base = call.up.err.base
              /\ call.err.wraps = call.up.err.wraps + 1)

\* C20 witness: a partly read MonoMixer over a Resampler was closed a second
\* time over a source whose Close fails, and returned the error wrapped by
\* both stages.
C20_Witness ==
    /\ call.op = "mixer.Close"
    /\ IsResampler(r)
    /\ src.closes = 2
    /\ hist.frames > 0
    /\ ~hist.mixEOF
    /\ call.err = Wrap(Wrap(ErrClose))

\* C21: CubicInterpolate passes exactly through the two inner points:
\* CubicInterpolate(y0, y1, y2, y3, 0) = y1 and
\* CubicInterpolate(y0, y1, y2, y3, 1) = y2 for all y0, y1, y2, y3.
C21_ThroughInnerPoints ==
    call.op = "interpolate"
    => /\ (call.x = 0 => call.result = call.y1)
       /\ (call.x = F32One => call.result = call.y2)

\* C22: the registry is safe under concurrent use: at most one goroutine is
\* inside the map access, and it holds the mutex; every Get returns
\* not-found or a decoder some Register stored under that key; and when all
\* calls have returned the map holds, per key, the decoder of the Register
\* that acquired the lock last.
C22_RegistrySafe ==
    /\ Cardinality({i \in Goroutines : reg.g[i].pc \in {"map", "unlock"}}) <= 1
    /\ \A i \in Goroutines :
          reg.g[i].pc \in {"map", "unlock"} => reg.mtx = i
    /\ \A i \in Goroutines :
          (reg.g[i].op = "Get" /\ reg.g[i].pc \in {"unlock", "idle"})
          => \/ (~reg.g[i].ok /\ reg.g[i].d = NilDecoder)
             \/ (reg.g[i].ok /\ <<reg.g[i].format, reg.g[i].d>> \in reg.stored)
    /\ (\A i \in Goroutines : reg.g[i].pc = "idle")
       => \A k \in Keys :
             /\ (k \in DOMAIN reg.codecs) = (k \in DOMAIN reg.last)
             /\ (k \in DOMAIN reg.codecs => reg.codecs[k] = reg.last[k])

\* C22 witness: one goroutine waits at Lock while the other is inside
\* Register, after both decoders were stored under the same key.
C22_Witness ==
    /\ \E i \in Goroutines : reg.g[i].pc = "lock"
    /\ \E i \in Goroutines : reg.g[i].pc = "map" /\ reg.g[i].op = "Register"
    /\ <<"wav", "first">> \in reg.stored
    /\ <<"wav", "second">> \in reg.stored

\* C23: Get(k) returns (d, true) with d the decoder of the most recent
\* Register(k, d), or (nil, false) if k was never registered; Register(k, .)
\* leaves every other key as it was, Get leaves the registry as it was, and
\* the empty string is a key like any other.
C23_LastRegistered ==
    /\ [](\A i \in Goroutines :
            (reg.g[i].op = "Get" /\ reg.g[i].pc = "unlock")
            => IF reg.g[i].format \in DOMAIN reg.last
               THEN reg.g[i].ok /\ reg.g[i].d = reg.last[reg.g[i].format]
               ELSE ~reg.g[i].ok /\ reg.g[i].d = NilDecoder)
    /\ [][\A i \in Goroutines :
            (reg.g[i].pc = "map" /\ reg'.g[i].pc = "unlock")
            => IF reg.g[i].op = "Get"
               THEN reg'.codecs = reg.codecs
               ELSE \A k \in Keys \ {reg.g[i].format} :
                       /\ (k \in DOMAIN reg'.codecs) = (k \in DOMAIN reg.codecs)
                       /\ (k \in DOMAIN reg.codecs
                           => reg'.codecs[k] = reg.codecs[k])]_vars

\* C23 witness: a Get of the empty key returned the second decoder after
\* the first had been registered under it, while another key was never
\* registered.
C23_Witness ==
    \E i \in Goroutines :
        /\ reg.g[i].op = "Get"
        /\ reg.g[i].pc = "unlock"
        /\ reg.g[i].format = ""
        /\ reg.g[i].ok
        /\ reg.g[i].d = "second"
        /\ <<"", "first">> \in reg.stored
        /\ "wav" \notin DOMAIN reg.codecs

\* The Write calls after the header carry every sample of the slice once,
\* in order, as little-endian 16-bit two's complement: the runs of calls
\* tile the slice, and the bytes of the first and the last call of each run
\* are those of its samples.
WavDataInOrder(samples, writes) ==
    /\ (samples.len = 0) = (writes = << >>)
    /\ \A k \in 1..Len(writes) :
          /\ writes[k].n > 0 /\ writes[k].times > 0
          /\ writes[k].from
               = (IF k = 1 THEN 0
                  ELSE writes[k - 1].from + writes[k - 1].times * writes[k - 1].n)
          /\ (k = Len(writes)
              => samples.len - writes[k].from = writes[k].times * writes[k].n)
          /\ \A c \in {0, writes[k].times - 1} :
                \A i \in 0..(writes[k].n - 1) :
                   /\ WriteByte(samples,
                                [from |-> writes[k].from + c * writes[k].n,
                                 n |-> writes[k].n], 2 * i + 1)
                        = (Sample(samples, writes[k].from + c * writes[k].n + i)
                           + 65536) % 256
                   /\ WriteByte(samples,
                                [from |-> writes[k].from + c * writes[k].n,
                                 n |-> writes[k].n], 2 * i + 2)
                        = ((Sample(samples, writes[k].from + c * writes[k].n + i)
                            + 65536) \div 256) % 256

\* C24: for a sample slice of any length L WriteWAV16 writes 44 + 2*L
\* bytes: a 44-byte header with format tag 1, channel count 1, the given
\* rate, bit depth 16, data-size field 2*L and RIFF-size field 36 + 2*L,
\* then every sample once, in order, as little-endian 16-bit values.  (The
\* size fields are compared by their halves, L and L + 18.)
C24_WavFile ==
    (call.op = "WriteWAV16" /\ call.err = Nil)
    => /\ Len(call.w.header) = 44
       /\ [i \in 1..4 |-> call.w.header[i]] = Tag("RIFF")
       /\ [i \in 1..4 |-> call.w.header[8 + i]] = Tag("WAVE")
       /\ [i \in 1..4 |-> call.w.header[12 + i]] = Tag("fmt ")
       /\ [i \in 1..4 |-> call.w.header[36 + i]] = Tag("data")
       /\ call.w.header[21] = 1 /\ call.w.header[22] = 0
       /\ call.w.header[23] = 1 /\ call.w.header[24] = 0
       /\ call.w.header[25] + 256 * call.w.header[26]
            + 65536 * call.w.header[27] + 16777216 * call.w.header[28]
          = call.sampleRate
       /\ call.w.header[35] = 16 /\ call.w.header[36] = 0
       /\ call.w.header[41] % 2 = 0
       /\ (call.w.header[41] \div 2) + 128 * call.w.header[42]
            + 32768 * call.w.header[43] + 8388608 * call.w.header[44]
          = call.samples.len
       /\ call.w.header[5] % 2 = 0
       /\ (call.w.header[5] \div 2) + 128 * call.w.header[6]
            + 32768 * call.w.header[7] + 8388608 * call.w.header[8] - 18
          = call.samples.len
       /\ WavDataInOrder(call.samples, call.w.writes)

\* C25: ResampleToMono16 returns io.EOF as its error when the stream
\* completed normally, and another non-nil error only when a read of the
\* pipeline failed.
C25_EOFOnCompletion ==
    (drv.status = "returned")
    => /\ (drv.failed = Nil => drv.err = EOF)
       /\ (drv.err \notin {Nil, EOF} => drv.failed # Nil)

\* C26: Resampler.ReadSamples returns io.EOF only if a read of its upstream
\* has returned io.EOF, also over an upstream that answers a read of a
\* non-empty buffer with (0, nil) while more data follows.
C26_EOFOnlyAfterUpstreamEOF ==
    (call.op = "resampler" /\ call.err = EOF) => src.eofs > 0

\* C27: ResampleToMono16 terminates: over every upstream that returns
\* io.EOF or an error after finitely many reads, and for every chunk size
\* from 0 on, the drain loop eventually returns.
C27_Terminates == (drv # NoRun) ~> (drv # NoRun /\ drv.done)

\* The absolute position of the Resampler's cursor: the window advances
\* that succeeded plus the fractional position.
AbsolutePosition(rs) == QAdd(<<rs.advances, 1>>, rs.pos)

\* C28: the cursor only advances: over every call of ReadSamples, calls
\* after exhaustion included, the absolute position does not decrease, and
\* it grows by srcRate/dstRate for each output frame the call produced.
C28_CursorAdvances ==
    [][ (IsResampler(r) /\ IsResampler(r') /\ hist'.calls = hist.calls + 1)
        => /\ QLe(AbsolutePosition(r), AbsolutePosition(r'))
           /\ AbsolutePosition(r')
                = QAdd(AbsolutePosition(r),
                       QMul(<<call'.up.n \div r.channels, 1>>, r.ratio)) ]_vars

\* Frame f (from 0) of the source s.
SourceFrame(s, f) ==
    [c \in 1..s.channels |-> Waveform(s.waveform, f, c - 1)]

\* C29: priming over a short stream.  When the upstream is exhausted after
\* j frames, 1 <= j <= 3 (a frame delivered together with io.EOF counts),
\* the first read leaves window slots 0..j-1 holding those frames in order
\* and slots j..3 holding copies of frame j-1, all four valid, and it is
\* not answered (0, io.EOF); with j = 0 it is answered (0, io.EOF).
C29_ShortStreamPriming ==
    [][ ( /\ call'.op = "resampler"
          /\ hist.calls = 0
          /\ call'.len % r.channels = 0
          /\ src.failAt = 0
          /\ src.totalSamples <= 3 )
        => IF src.totalSamples = 0
           THEN call'.n = 0 /\ call'.err = EOF
           ELSE /\ \A k \in 1..4 :
                     /\ r'.hasFrame[k]
                     /\ r'.frames[k]
                          = SourceFrame(src, Min(k, src.totalSamples) - 1)
                /\ ~(call'.n = 0 /\ call'.err = EOF) ]_vars

\* C30: the first output frame of a stream (t = 0) equals source frame 0 on
\* every channel, for every ratio: the first interpolation segment lies
\* between source frames 0 and 1.
C30_FirstFrameIsFrameZero ==
    [][ ( /\ call'.op = "resampler"
          /\ hist.frames = 0
          /\ src.failAt = 0
          /\ call'.n > 0 )
        => [c \in 1..r.channels |-> call'.out[c]] = SourceFrame(src, 0) ]_vars

\* The least integer not below the rational q >= 0.
Ceil(q) == (q[1] + q[2] - 1) \div q[2]

\* C31: bounded look-ahead: when output frame k (from 0) is produced the
\* Resampler has read from upstream no source frame with an index greater
\* than ceil(k * ratio) + 1.
C31_BoundedLookAhead ==
    (IsResampler(r) /\ r.emitted > 0)
    => r.readAtEmit - 1
         <= Ceil(QMul(<<r.emitted - 1, 1>>, r.ratio)) + 1

\* The upstream failed during the step: a read was made whose number is
\* failAt or more.
UpstreamFailedNow ==
    src'.failAt > 0 /\ src'.reads > src.reads /\ src'.reads >= src'.failAt

\* C32: a ReadSamples call of the Resampler that ends because the upstream
\* is exhausted or failed returns w * channels, w the output frames it
\* produced, with io.EOF (with the wrapped error when the upstream failed)
\* and the w frames in dst; it returns (0, io.EOF) only when w = 0.
C32_PartialOutputReturned ==
    [][ ( /\ call'.op = "resampler"
          /\ hist'.calls = hist.calls + 1
          /\ call'.err \notin {Nil, ErrInvalidDstSize} )
        => /\ call'.n = (r'.emitted - r.emitted) * r.channels
           /\ Len(call'.out) = call'.n
           /\ call'.err = (IF UpstreamFailedNow
                           THEN Wrap(ErrUpstream) ELSE EOF) ]_vars

\* C32 witness: reads that produced frames and ended with io.EOF, the
\* latest one after a read that had returned frames already.
C32_Witness ==
    /\ call.op = "resampler"
    /\ call.err = EOF
    /\ call.n >= r.channels
    /\ r.channels >= 2
    /\ hist.calls >= 2
    /\ hist.frames > call.n \div r.channels

\* C33: the anti-alias filter is active exactly when the source rate is
\* greater than the target rate; while it is inactive no read changes the
\* per-channel filter accumulator, every valid window slot holds a frame as
\* the upstream delivered it, and a frame fetched into slot 3 is the frame
\* the upstream delivered last.
C33_FilterOnlyDownsampling ==
    /\ [](IsResampler(r) => (r.useFilter <=> r.srcRate > r.dstRate))
    /\ [][ (IsResampler(r) /\ IsResampler(r') /\ ~r.useFilter /\ src.failAt = 0)
           => /\ r'.filterState = r.filterState
              /\ \A k \in 1..4 :
                    r'.hasFrame[k]
                    => \E f \in 0..(src.totalSamples - 1) :
                          r'.frames[k] = SourceFrame(src, f)
              /\ (r.hasFrame[2] /\ r'.hasFrame[4]
                  /\ src'.generated > src.generated)
                 => r'.frames[4] = SourceFrame(src, src'.generated - 1) ]_vars

\* C33 witness: an upsampling Resampler over a multi-channel ramp has
\* advanced its window.
C33_Witness ==
    /\ IsResampler(r)
    /\ ~r.useFilter
    /\ r.srcRate < r.dstRate
    /\ r.channels >= 2
    /\ src.waveform = "ramp"
    /\ r.advances >= 1
    /\ r.hasFrame[4]
    /\ call.op = "resampler"

\* C34: every n returned by Resampler.ReadSamples is a multiple of
\* Channels() with 0 <= n <= len(dst), and the status is nil only when
\* n = len(dst): a short read carries io.EOF or an error.
C34_CountWithinBuffer ==
    call.op = "resampler"
    => /\ 0 <= call.n /\ call.n <= call.len
       /\ call.n % r.channels = 0
       /\ Len(call.out) = call.n
       /\ (call.err = Nil => call.n = call.len)

\* C34 witness: a short read over a multi-channel source: some frames, fewer
\* than the buffer holds, with io.EOF.
C34_Witness ==
    /\ call.op = "resampler"
    /\ r.channels >= 2
    /\ 0 < call.n /\ call.n < call.len
    /\ call.err = EOF

\* C35: at every call of CubicInterpolate made by the Resampler the
\* interpolation parameter t = float32(r.pos) satisfies 0 <= t < 1, for
\* every ratio.
C35_ParameterBelowOne ==
    (call.op = "cursor" /\ call.written > 0)
    => /\ call.alpha[1] >= 0 /\ call.alpha[2] >= 0
       /\ call.alpha[1] < F64One[1]

\* Frame f of the source s as the window holds it: the four frames of the
\* priming loop as read, a later frame through the one-pole low-pass when
\* downsampling (its state seeded with frame 0).
RECURSIVE WindowFrame(_, _, _)
WindowFrame(rs, s, f) ==
    IF ~rs.useFilter \/ f <= 3 THEN SourceFrame(s, f)
    ELSE LET prev == IF f = 4 THEN SourceFrame(s, 0) ELSE WindowFrame(rs, s, f - 1)
         IN  [c \in 1..s.channels |->
                 QAdd(QMul(Q(1, 2), SourceFrame(s, f)[c]), QMul(Q(1, 2), prev[c]))]

\* The Resampler is primed and every upstream read so far delivered one
\* frame, four or more of them.
StillDelivering ==
    /\ IsResampler(r) /\ r.hasFrame[2] /\ drv = NoRun
    /\ src.failAt = 0 /\ src.stallAt = 0
    /\ src.totalSamples >= 4
    /\ src.reads >= 4 /\ src.generated = src.reads

\* C36: while the upstream still delivers frames (a source of at least 4
\* frames), after a successful window advances slots 0..3 hold source
\* frames a..a+3 (filtered when downsampling) and exactly a + 4 frames
\* have been read from upstream, each once and in order.
C36_WindowFollowsSource ==
    StillDelivering
    => /\ src.generated = r.advances + 4
       /\ \A k \in 1..4 :
            /\ r.hasFrame[k]
            /\ r.frames[k] = WindowFrame(r, src, r.advances + k - 1)

C38_ExactUpstreamRequest ==
    (call.op = "mixer" /\ call.len > 0 /\ r.channels >= 2)
    => /\ call.up.called
       /\ call.up.len = call.len * r.channels
       /\ call.n <= call.len
       /\ call.err # Panic

\* C39: once an upstream read has returned io.EOF the Resampler never
\* calls upstream.ReadSamples again: no call reads the upstream after an
\* earlier call was answered io.EOF, and no call draws io.EOF twice.
C39_NoReadAfterEOF ==
    [][ (IsResampler(r) /\ src.failAt = 0)
        => /\ src'.eofs <= 1
           /\ (src.eofs >= 1 => src'.reads = src.reads) ]_vars

====
